---- MODULE Spec2Model ----
(***************************************************************************)
(* Model of the FDC1004 serial acquisition firmware                        *)
(* (hardware/FDC1004-Serial-Python/FDC1004-Serial-Python.ino).             *)
(*                                                                         *)
(* The main context (loop() and the three command handlers) is a program  *)
(* counter over the statements of the sketch; the timer interrupt and the *)
(* host at the other end of the serial link are concurrent actions.       *)
(***************************************************************************)
EXTENDS Integers, Sequences, FiniteSets, TLC

(***************************************************************************)
(* Program constants                                                       *)
(***************************************************************************)
TIMER_INTERVAL == 12500
RETRIES == 200
DefaultSamplesToGet == 100
DefaultCapdac == 0
NoCommand == -1
OpSetCapdac == 0
OpSetSamples == 1
OpCollect == 2
CharS == 83
CharO == 79
CharF == 70
RecordSize == 8

(***************************************************************************)
(* Bounds of the model                                                     *)
(***************************************************************************)
\* capacity of the serial receive buffer the host may fill
MaxRx == 1
\* largest magnitude of a decimal payload the host sends
MaxValue == 1
\* timer expiries a session keeps count of ahead of its records
CreditCap == 2
\* records of the session whose bytes are followed on the wire
MaxRecords == 2

\* bytes the host may put on the link: the three opcodes, 'S' and the digit '1'
HostBytes == {0, 1, 2, 83, 49}
\* the same with the sign '-', for a host that sends signed payloads
SignedHostBytes == HostBytes \cup {45}
\* raw readings the sensor driver may return
SensorValues == {-3}

IsDigit(c) == c >= 48 /\ c <= 57
IsMinus(c) == c = 45

(***************************************************************************)
(* The microsecond clock.  A 64-bit time is held as its upper 32 bits (e)  *)
(* and the two 16-bit halves (hi, lo) of its lower 32 bits, so that the    *)
(* 32-bit conversion keeps its width.                                      *)
(***************************************************************************)
Pow16 == 2 ^ 16

Time(e, hi, lo) == [e |-> e, hi |-> hi, lo |-> lo]

\* t + d microseconds, 0 <= d < 2^16
AddMicros(t, d) ==
    LET lo == t.lo + d
        hi == t.hi + (lo \div Pow16)
    IN Time(t.e + (hi \div Pow16), hi % Pow16, lo % Pow16)

TimeLeq(a, b) ==
    \/ a.e < b.e
    \/ a.e = b.e /\ a.hi < b.hi
    \/ a.e = b.e /\ a.hi = b.hi /\ a.lo <= b.lo

Boot == Time(0, 0, 0)

\* one timer period before the lower 32 bits of the clock wrap (2^32 - 12500)
BeforeWrap == Time(0, Pow16 - 1, Pow16 - TIMER_INTERVAL)

\* values esp_timer_get_time() may return (microseconds since boot)
ClockValues == {BeforeWrap, AddMicros(BeforeWrap, TIMER_INTERVAL)}

\* (uint32_t) conversion of the 64-bit clock: the lower 32 bits
ToUint32(t) == [hi |-> t.hi, lo |-> t.lo]

\* order of two uint32_t values
Uint32Leq(a, b) == a.hi < b.hi \/ (a.hi = b.hi /\ a.lo <= b.lo)

(***************************************************************************)
(* Device output: one token per Serial.write / Serial.print                *)
(***************************************************************************)
Echo(op) == [t |-> "echo", b |-> op]
Mark(c) == [t |-> "mark", b |-> c]
Rec == [t |-> "rec", b |-> RecordSize]

VARIABLES
    pc,                  \* position of the main context
    pcCommand,           \* int pcCommand
    capdac,              \* volatile int capdac
    samplesToGet,        \* volatile int samplesToGet
    samplesSent,         \* int samplesSent
    timer_interruptFlag, \* volatile bool timer_interruptFlag
    timeout,             \* int timeout, local to the running handler
    dataCAP,             \* cap_sens_reading dataCAP
    value,               \* parseInt: long value
    isNegative,          \* parseInt: boolean isNegative
    rx,                  \* serial bytes received and not yet read
    out,                 \* what the device sent for the current command
    timerRunning,        \* TIMER_0 of group 0 is counting
    timerCounter,        \* TIMER_0 counter value
    fdcOffset,           \* offset the FDC1004 measurement was configured with
    alphabet,            \* bytes this host sends
    now,                 \* last value returned by esp_timer_get_time()
    cfg0,                \* capdac and samplesToGet when the handler was entered
    gotDigit,            \* parseInt consumed at least one decimal digit
    ledger               \* timer expiries of the session not yet matched by a record

vars == <<pc, pcCommand, capdac, samplesToGet, samplesSent, timer_interruptFlag,
          timeout, dataCAP, value, isNegative, rx, out, timerRunning,
          timerCounter, fdcOffset, alphabet, now, cfg0, gotDigit, ledger>>

Config == [capdac |-> capdac, samplesToGet |-> samplesToGet]

(***************************************************************************)
(* History of the trigger: ledger.credit is the number of timer expiries   *)
(* since timer_start minus the number of records written since then, kept  *)
(* up to CreditCap; a behaviour either counts (on) or does not.            *)
(***************************************************************************)
NotCounted == [on |-> FALSE, credit |-> 0]
Counted(n) == [on |-> TRUE, credit |-> n]

\* timer_start: a session begins with no expiry and no record
LedgerAtArm == IF ledger.on THEN Counted(0) ELSE ledger

\* the alarm fired once more
LedgerAfterExpiry ==
    IF ledger.on /\ ledger.credit < CreditCap THEN Counted(ledger.credit + 1) ELSE ledger

\* one more record was written
LedgerAfterRecord == IF ledger.on THEN Counted(ledger.credit - 1) ELSE ledger

\* globals as initialised at their declarations, then setup(); the host sends
\* the bytes of A
InitWith(A) ==
    /\ alphabet = A
    /\ pc = "idle"
    /\ pcCommand = NoCommand
    /\ capdac = DefaultCapdac
    /\ samplesToGet = DefaultSamplesToGet
    /\ samplesSent = 0
    /\ timer_interruptFlag = FALSE
    /\ timeout = 0
    /\ dataCAP = [cap_sens_timestamp |-> ToUint32(Boot), cap_sens_data |-> 0]
    /\ value = 0
    /\ isNegative = FALSE
    /\ rx = <<>>
    /\ out = <<>>
    /\ timerRunning = FALSE
    /\ timerCounter = 0
    /\ fdcOffset = DefaultCapdac
    /\ now = Boot
    /\ cfg0 = [capdac |-> DefaultCapdac, samplesToGet |-> DefaultSamplesToGet]
    /\ gotDigit = FALSE

Init == InitWith(HostBytes) /\ ledger = NotCounted

InitSigned == InitWith(SignedHostBytes) /\ ledger = NotCounted

\* the same device, with the timer expiries of each session counted
InitCounted == InitWith(HostBytes) /\ ledger = Counted(0)

(***************************************************************************)
(* loop(): read one byte if there is one, then dispatch on pcCommand       *)
(***************************************************************************)
\* variant of Return: loop() does not set pcCommand back to -1
Return_KeepsCommand ==
    /\ pc' = "idle"
    /\ pcCommand' = pcCommand
    /\ timeout' = 0
    /\ value' = 0
    /\ isNegative' = FALSE
    /\ UNCHANGED <<cfg0, gotDigit>>

\* the handler returns to loop(), which sets pcCommand = -1; the handler's
\* locals end with it
Return ==
    /\ pc' = "idle"
    /\ pcCommand' = NoCommand
    /\ timeout' = 0
    /\ value' = 0
    /\ isNegative' = FALSE
    /\ UNCHANGED <<cfg0, gotDigit>>

\* first statements of each handler: int timeout = 0; Serial.write(opcode);
Begin(op) ==
    /\ timeout' = 0
    /\ out' = <<Echo(op)>>
    /\ cfg0' = Config
    /\ gotDigit' = FALSE

\* variant of Dispatch: the last test is missing, anything else starts an acquisition
Dispatch_Default(cmd) ==
    IF cmd = OpSetCapdac THEN "cap_wait"
    ELSE IF cmd = OpSetSamples THEN "smp_wait"
    ELSE "col_wait"

\* the handler that loop() calls for pcCommand = cmd, if any
Dispatch(cmd) ==
    IF cmd = OpSetCapdac THEN "cap_wait"
    ELSE IF cmd = OpSetSamples THEN "smp_wait"
    ELSE IF cmd = OpCollect THEN "col_wait"
    ELSE "idle"

loop ==
    /\ pc = "idle"
    /\ LET cmd == IF Len(rx) > 0 THEN Head(rx) ELSE pcCommand
       IN /\ pcCommand' = cmd
          /\ rx' = IF Len(rx) > 0 THEN Tail(rx) ELSE rx
          /\ pc' = Dispatch(cmd)
          /\ IF Dispatch(cmd) # "idle"
             THEN Begin(cmd)
             ELSE UNCHANGED <<timeout, out, cfg0, gotDigit>>
    /\ UNCHANGED <<capdac, samplesToGet, samplesSent, timer_interruptFlag, dataCAP,
                   value, isNegative, timerRunning, timerCounter, fdcOffset, alphabet, ledger, now>>

(***************************************************************************)
(* set_capdac() and setSamplesToGet()                                      *)
(***************************************************************************)
\* variant of ConfigFinish: the timeout test is off by one
ConfigFinish_OffByOne(o, t, c, n) ==
    /\ out' = IF t >= RETRIES - 1 THEN Append(o, Mark(CharF)) ELSE o
    /\ capdac' = c
    /\ samplesToGet' = n
    /\ Return

\* after the while loop: if (timeout >= 200) Serial.print("F"); return;
\* o is what was sent so far, t the value of timeout, c and n the configuration
ConfigFinish(o, t, c, n) ==
    /\ out' = IF t >= RETRIES THEN Append(o, Mark(CharF)) ELSE o
    /\ capdac' = c
    /\ samplesToGet' = n
    /\ Return

\* Serial.available() is 0: delay(10); timeout++; and the while condition
ConfigRetry(waitPc) ==
    IF timeout + 1 < RETRIES
    THEN /\ timeout' = timeout + 1
         /\ pc' = waitPc
         /\ UNCHANGED <<pcCommand, capdac, samplesToGet, value, isNegative, out,
                        cfg0, gotDigit>>
    ELSE ConfigFinish(out, timeout + 1, capdac, samplesToGet)

\* one iteration of the polling loop of a configuration handler
ConfigPoll(waitPc) ==
    /\ pc = waitPc
    /\ timeout < RETRIES
    /\ IF Len(rx) > 0
       THEN /\ pc' = "parse_skip"
            /\ UNCHANGED <<pcCommand, capdac, samplesToGet, timeout, value,
                           isNegative, out, cfg0, gotDigit>>
       ELSE ConfigRetry(waitPc)
    /\ UNCHANGED <<samplesSent, timer_interruptFlag, dataCAP, rx, timerRunning,
                   timerCounter, fdcOffset, alphabet, ledger, now>>

set_capdac_poll ==
    /\ pcCommand = OpSetCapdac
    /\ ConfigPoll("cap_wait")

setSamplesToGet_poll ==
    /\ pcCommand = OpSetSamples
    /\ ConfigPoll("smp_wait")

(***************************************************************************)
(* Serial.parseInt(), called by the two configuration handlers             *)
(***************************************************************************)
\* variant of ParseReturn: the parsed value is stored in both parameters
ParseReturn_Both(result) ==
    ConfigFinish(Append(out, Mark(CharO)), timeout, result, result)

\* x = Serial.parseInt(); Serial.print("O"); break; and the rest of the handler
ParseReturn(result) ==
    ConfigFinish(Append(out, Mark(CharO)), timeout,
                 IF pcCommand = OpSetCapdac THEN result ELSE capdac,
                 IF pcCommand = OpSetCapdac THEN samplesToGet ELSE result)

\* variant of ParseResult: -1 stands for "no number", as Serial.read() does for "no byte"
ParseResult_Sentinel ==
    IF ~gotDigit THEN 0 - 1 ELSE IF isNegative THEN 0 - value ELSE value

ParseResult == IF isNegative THEN 0 - value ELSE value

\* peekNextDigit(): discard bytes that are neither a digit nor '-'; the first
\* byte that is one starts the number
parseInt_skip ==
    /\ pc = "parse_skip"
    /\ Len(rx) > 0
    /\ LET c == Head(rx)
       IN /\ rx' = Tail(rx)
          /\ IF IsMinus(c)
             THEN /\ isNegative' = TRUE
                  /\ pc' = "parse_num"
                  /\ UNCHANGED <<value, gotDigit>>
             ELSE IF IsDigit(c)
             THEN /\ value' = value * 10 + c - 48
                  /\ gotDigit' = TRUE
                  /\ pc' = "parse_num"
                  /\ UNCHANGED isNegative
             ELSE UNCHANGED <<pc, value, isNegative, gotDigit>>
    /\ UNCHANGED <<pcCommand, capdac, samplesToGet, samplesSent, timer_interruptFlag,
                   timeout, dataCAP, out, timerRunning, timerCounter, fdcOffset, alphabet, ledger, now,
                   cfg0>>

\* the do-while of parseInt: the next byte is a digit, or the number is over
parseInt_num ==
    /\ pc = "parse_num"
    /\ Len(rx) > 0
    /\ LET c == Head(rx)
       IN IF IsDigit(c)
          THEN /\ value' = value * 10 + c - 48
               /\ gotDigit' = TRUE
               /\ rx' = Tail(rx)
               /\ UNCHANGED <<pc, pcCommand, isNegative, capdac, samplesToGet, out,
                              timeout, cfg0>>
          ELSE /\ ParseReturn(ParseResult)
               /\ UNCHANGED rx
    /\ UNCHANGED <<samplesSent, timer_interruptFlag, dataCAP, timerRunning,
                   timerCounter, fdcOffset, alphabet, ledger, now>>

\* timedPeek() saw no byte for the stream timeout
parseInt_timeout ==
    /\ pc \in {"parse_skip", "parse_num"}
    /\ Len(rx) = 0
    /\ ParseReturn(ParseResult)
    /\ UNCHANGED <<samplesSent, timer_interruptFlag, dataCAP, rx, timerRunning,
                   timerCounter, fdcOffset, alphabet, ledger, now>>

(***************************************************************************)
(* collectData()                                                           *)
(***************************************************************************)
\* variant of CollectFinish: the timeout test is off by one
CollectFinish_Le(t) ==
    IF t <= RETRIES
    THEN /\ out' = Append(out, Mark(CharO))
         /\ timerRunning' = TRUE
         /\ pc' = "acq_poll"
         /\ timeout' = 0
         /\ UNCHANGED <<pcCommand, value, isNegative, cfg0, gotDigit>>
    ELSE /\ out' = Append(out, Mark(CharF))
         /\ Return
         /\ UNCHANGED timerRunning

\* variant of CollectFinish: the acquisition starts without the 'O'
CollectFinish_NoAck(t) ==
    IF t < RETRIES
    THEN /\ out' = out
         /\ timerRunning' = TRUE
         /\ pc' = "acq_poll"
         /\ timeout' = 0
         /\ UNCHANGED <<pcCommand, value, isNegative, cfg0, gotDigit>>
    ELSE /\ out' = Append(out, Mark(CharF))
         /\ Return
         /\ UNCHANGED timerRunning

\* after the while loop:
\* if (timeout < 200) Serial.print("O") else { Serial.print("F"); return; }
\* timer_start(TIMER_GROUP_0, TIMER_0);
CollectFinish(t) ==
    IF t < RETRIES
    THEN /\ out' = Append(out, Mark(CharO))
         /\ timerRunning' = TRUE
         /\ pc' = "acq_poll"
         /\ timeout' = 0
         /\ UNCHANGED <<pcCommand, value, isNegative, cfg0, gotDigit>>
    ELSE /\ out' = Append(out, Mark(CharF))
         /\ Return
         /\ UNCHANGED timerRunning

\* delay(10); timeout++; and the while condition
CollectRetry ==
    IF timeout + 1 < RETRIES
    THEN /\ timeout' = timeout + 1
         /\ UNCHANGED <<pc, pcCommand, value, isNegative, out, timerRunning, cfg0,
                        gotDigit>>
    ELSE CollectFinish(timeout + 1)

collectData_poll ==
    /\ pc = "col_wait"
    /\ timeout < RETRIES
    /\ IF Len(rx) > 0
       THEN /\ rx' = Tail(rx)
            /\ IF Head(rx) = CharS THEN CollectFinish(timeout) ELSE CollectRetry
       ELSE /\ CollectRetry
            /\ UNCHANGED rx
    /\ ledger' = IF timerRunning' THEN LedgerAtArm ELSE ledger
    /\ UNCHANGED <<capdac, samplesToGet, samplesSent, timer_interruptFlag, dataCAP,
                   timerCounter, fdcOffset, alphabet, now>>

\* variant of collectData_acq_poll: the loop condition is <= instead of <
collectData_acq_poll_Le ==
    /\ pc = "acq_poll"
    /\ pc' = IF samplesSent <= samplesToGet
             THEN (IF timer_interruptFlag = TRUE THEN "acq_clear" ELSE "acq_poll")
             ELSE "acq_exit"
    /\ UNCHANGED <<pcCommand, capdac, samplesToGet, samplesSent, timer_interruptFlag,
                   timeout, dataCAP, value, isNegative, rx, out, timerRunning,
                   timerCounter, fdcOffset, alphabet, ledger, now, cfg0, gotDigit>>

\* variant of collectData_acq_poll: a byte from the host ends the run
collectData_acq_poll_Cancel ==
    /\ pc = "acq_poll"
    /\ pc' = IF samplesSent < samplesToGet /\ Len(rx) = 0
             THEN (IF timer_interruptFlag = TRUE THEN "acq_clear" ELSE "acq_poll")
             ELSE "acq_exit"
    /\ UNCHANGED <<pcCommand, capdac, samplesToGet, samplesSent, timer_interruptFlag,
                   timeout, dataCAP, value, isNegative, rx, out, timerRunning,
                   timerCounter, fdcOffset, alphabet, ledger, now, cfg0, gotDigit>>

\* while (samplesSent < samplesToGet) { if (timer_interruptFlag == true) ...
collectData_acq_poll ==
    /\ pc = "acq_poll"
    /\ pc' = IF samplesSent < samplesToGet
             THEN (IF timer_interruptFlag = TRUE THEN "acq_clear" ELSE "acq_poll")
             ELSE "acq_exit"
    /\ UNCHANGED <<pcCommand, capdac, samplesToGet, samplesSent, timer_interruptFlag,
                   timeout, dataCAP, value, isNegative, rx, out, timerRunning,
                   timerCounter, fdcOffset, alphabet, ledger, now, cfg0, gotDigit>>

\* timer_interruptFlag = false;
collectData_acq_clear ==
    /\ pc = "acq_clear"
    /\ timer_interruptFlag' = FALSE
    /\ pc' = "acq_emit"
    /\ UNCHANGED <<pcCommand, capdac, samplesToGet, samplesSent, timeout, dataCAP,
                   value, isNegative, rx, out, timerRunning, timerCounter, fdcOffset, alphabet, ledger,
                   now, cfg0, gotDigit>>

\* timestamp, getRawCapacitance, Serial.write of the record, samplesSent++
collectData_acq_emit ==
    /\ pc = "acq_emit"
    /\ \E t \in ClockValues, r \in SensorValues :
          /\ TimeLeq(now, t)
          /\ now' = t
          /\ dataCAP' = [cap_sens_timestamp |-> ToUint32(t), cap_sens_data |-> r]
    /\ out' = Append(out, Rec)
    /\ samplesSent' = samplesSent + 1
    /\ pc' = "acq_poll"
    /\ ledger' = LedgerAfterRecord
    /\ UNCHANGED <<pcCommand, capdac, samplesToGet, timer_interruptFlag, timeout,
                   value, isNegative, rx, timerRunning, timerCounter, fdcOffset, alphabet,
                   cfg0, gotDigit>>

\* variant of collectData_acq_exit: the counter is not set back to 0
collectData_acq_exit_NoReset ==
    /\ pc = "acq_exit"
    /\ timerRunning' = FALSE
    /\ timerCounter' = timerCounter
    /\ samplesSent' = 0
    /\ Return
    /\ UNCHANGED <<capdac, samplesToGet, timer_interruptFlag, dataCAP, rx, out,
                   fdcOffset, alphabet, ledger, now>>

\* timer_pause; timer_set_counter_value(.., 0); samplesSent = 0; return
collectData_acq_exit ==
    /\ pc = "acq_exit"
    /\ timerRunning' = FALSE
    /\ timerCounter' = 0
    /\ samplesSent' = 0
    /\ Return
    /\ UNCHANGED <<capdac, samplesToGet, timer_interruptFlag, dataCAP, rx, out,
                   fdcOffset, alphabet, ledger, now>>

(***************************************************************************)
(* The hardware timer and its interrupt handler                            *)
(***************************************************************************)
\* the counter is followed in steps of half a period
TimerStep == TIMER_INTERVAL \div 2

\* the counter of a running timer counts up towards the alarm value
timer_count ==
    /\ timerRunning
    /\ timerCounter + TimerStep < TIMER_INTERVAL
    /\ timerCounter' = timerCounter + TimerStep
    /\ UNCHANGED <<pc, pcCommand, capdac, samplesToGet, samplesSent,
                   timer_interruptFlag, timeout, dataCAP, value, isNegative, rx, out,
                   timerRunning, fdcOffset, alphabet, ledger, now, cfg0, gotDigit>>

\* variant of timer_group_isr_callback: the handler also reads the sensor
timer_group_isr_callback_Reads ==
    /\ timerRunning
    /\ timerCounter + TimerStep >= TIMER_INTERVAL
    /\ timerCounter' = 0
    /\ timer_interruptFlag' = TRUE
    /\ ledger' = LedgerAfterExpiry
    /\ \E r \in SensorValues : dataCAP' = [dataCAP EXCEPT !.cap_sens_data = r]
    /\ UNCHANGED <<pc, pcCommand, capdac, samplesToGet, samplesSent, timeout,
                   value, isNegative, rx, out, timerRunning, fdcOffset, alphabet, now,
                   cfg0, gotDigit>>

\* alarm with auto-reload: the counter restarts at 0 and the callback runs
timer_group_isr_callback ==
    /\ timerRunning
    /\ timerCounter + TimerStep >= TIMER_INTERVAL
    /\ timerCounter' = 0
    /\ timer_interruptFlag' = TRUE
    /\ ledger' = LedgerAfterExpiry
    /\ UNCHANGED <<pc, pcCommand, capdac, samplesToGet, samplesSent, timeout,
                   dataCAP, value, isNegative, rx, out, timerRunning, fdcOffset, alphabet, now,
                   cfg0, gotDigit>>

(***************************************************************************)
(* The host                                                                *)
(***************************************************************************)
RECURSIVE TrailingDigits(_)
TrailingDigits(s) ==
    IF Len(s) = 0 \/ ~IsDigit(s[Len(s)]) THEN <<>>
    ELSE Append(TrailingDigits(SubSeq(s, 1, Len(s) - 1)), s[Len(s)])

RECURSIVE Decimal(_, _)
Decimal(acc, s) ==
    IF Len(s) = 0 THEN acc ELSE Decimal(acc * 10 + Head(s) - 48, Tail(s))

\* the number a digit appended to rx would extend
PendingNumber(s) ==
    LET d == TrailingDigits(s)
    IN Decimal(IF Len(d) = Len(s) /\ pc = "parse_num" THEN value ELSE 0, d)

HostSend ==
    /\ Len(rx) < MaxRx
    /\ \E b \in alphabet :
          /\ IsDigit(b) => PendingNumber(Append(rx, b)) <= MaxValue
          /\ rx' = Append(rx, b)
    /\ UNCHANGED <<pc, pcCommand, capdac, samplesToGet, samplesSent,
                   timer_interruptFlag, timeout, dataCAP, value, isNegative, out,
                   timerRunning, timerCounter, fdcOffset, alphabet, ledger, now, cfg0, gotDigit>>

(***************************************************************************)
(* The sample record on the wire.  Serial.write of the address of dataCAP *)
(* and sizeof(dataCAP) sends the memory of the struct: the uint32_t        *)
(* timestamp then the int32_t reading, each least significant byte first   *)
(* (the ESP32 is little-endian), the reading in two's complement.          *)
(***************************************************************************)
Byte(n) == [t |-> "byte", b |-> n]

\* smallest int32_t
MinInt32 == (-2147483647) - 1

\* the 32 bits of an int32_t, as the two halves of the uint32_t with the same bits
Int32Bits_Int16(v) ==
    IF v >= 0
    THEN [hi |-> 0, lo |-> v % Pow16]
    ELSE [hi |-> Pow16 - 1, lo |-> (v - MinInt32) % Pow16]

Int32Bits(v) ==
    IF v >= 0
    THEN [hi |-> v \div Pow16, lo |-> v % Pow16]
    ELSE [hi |-> ((v - MinInt32) \div Pow16) + (Pow16 \div 2), lo |-> (v - MinInt32) % Pow16]

\* the four bytes of a uint32_t in memory order
Uint32Bytes(u) ==
    <<Byte(u.lo % 256), Byte(u.lo \div 256), Byte(u.hi % 256), Byte(u.hi \div 256)>>

\* the bytes of a cap_sens_reading in memory order
RecordBytes(d) ==
    Uint32Bytes(d.cap_sens_timestamp) \o Uint32Bytes(Int32Bits(d.cap_sens_data))

\* timestamps and readings a record may hold, the extremes of both types among them
WireTimestamps ==
    {[hi |-> 0, lo |-> 0], [hi |-> 0, lo |-> 256], [hi |-> 1, lo |-> 0],
     [hi |-> 258, lo |-> 772], [hi |-> Pow16 - 1, lo |-> Pow16 - 1]}

WireValues == {0, -1, -3, 16909060, MinInt32, -(MinInt32 + 1)}

\* collectData() with 'S' received and the trigger observed, about to fill the
\* first record of a session of MaxRecords samples
WireInit ==
    /\ alphabet = HostBytes
    /\ pc = "acq_emit"
    /\ pcCommand = OpCollect
    /\ capdac = DefaultCapdac
    /\ samplesToGet = MaxRecords
    /\ samplesSent = 0
    /\ timer_interruptFlag = FALSE
    /\ timeout = 0
    /\ dataCAP = [cap_sens_timestamp |-> ToUint32(Boot), cap_sens_data |-> 0]
    /\ value = 0
    /\ isNegative = FALSE
    /\ rx = <<>>
    /\ out = <<>>
    /\ timerRunning = TRUE
    /\ timerCounter = 0
    /\ fdcOffset = DefaultCapdac
    /\ now = Boot
    /\ cfg0 = [capdac |-> DefaultCapdac, samplesToGet |-> MaxRecords]
    /\ gotDigit = TRUE
    /\ ledger = NotCounted

\* dataCAP.cap_sens_timestamp = (uint32_t)esp_timer_get_time();
\* dataCAP.cap_sens_data = myFDC1004.getRawCapacitance(measurement, rate);
collectData_capture ==
    /\ pc = "acq_emit"
    /\ \E u \in WireTimestamps, r \in WireValues :
          dataCAP' = [cap_sens_timestamp |-> u, cap_sens_data |-> r]
    /\ pc' = "acq_write"
    /\ UNCHANGED <<pcCommand, capdac, samplesToGet, samplesSent, timer_interruptFlag,
                   timeout, value, isNegative, rx, out, timerRunning, timerCounter,
                   fdcOffset, alphabet, ledger, now, cfg0, gotDigit>>

\* Serial.write(&dataCAP, sizeof(dataCAP)); samplesSent++; and the
\* while condition, the trigger being observed again at once
collectData_write ==
    /\ pc = "acq_write"
    /\ out' = out \o RecordBytes(dataCAP)
    /\ samplesSent' = samplesSent + 1
    /\ pc' = IF samplesSent + 1 < samplesToGet THEN "acq_emit" ELSE "acq_exit"
    /\ UNCHANGED <<pcCommand, capdac, samplesToGet, timer_interruptFlag, timeout,
                   dataCAP, value, isNegative, rx, timerRunning, timerCounter,
                   fdcOffset, alphabet, ledger, now, cfg0, gotDigit>>

WireNext ==
    \/ collectData_capture
    \/ collectData_write
    \/ collectData_acq_exit

\* the acquisition loop of one session, followed byte by byte
WireSpec == WireInit /\ [][WireNext]_vars

Main ==
    \/ loop
    \/ set_capdac_poll
    \/ setSamplesToGet_poll
    \/ parseInt_skip
    \/ parseInt_num
    \/ parseInt_timeout
    \/ collectData_poll
    \/ collectData_acq_poll
    \/ collectData_acq_clear
    \/ collectData_acq_emit
    \/ collectData_acq_exit

Next ==
    \/ Main
    \/ timer_count
    \/ timer_group_isr_callback
    \/ HostSend

Spec == Init /\ [][Next]_vars

\* the same device with a host that also sends '-'
SignedSpec == InitSigned /\ [][Next]_vars

\* the same device with the ledger of timer expiries kept
CountedSpec == InitCounted /\ [][Next]_vars

\* the processor keeps executing the main context and a running timer keeps counting
FairSpec ==
    /\ Spec
    /\ WF_vars(Main)
    /\ WF_vars(timer_count)
    /\ WF_vars(timer_group_isr_callback)

TypeOK ==
    /\ pc \in {"idle", "cap_wait", "smp_wait", "parse_skip", "parse_num", "col_wait",
               "acq_poll", "acq_clear", "acq_emit", "acq_write", "acq_exit"}
    /\ pcCommand \in {NoCommand} \cup 0..255
    /\ timeout \in 0..RETRIES
    /\ timer_interruptFlag \in BOOLEAN
    /\ timerRunning \in BOOLEAN
    /\ Len(rx) <= MaxRx

(***************************************************************************)
(* Vocabulary of the properties                                            *)
(***************************************************************************)
WaitPcs == {"cap_wait", "smp_wait", "col_wait"}
ParsePcs == {"parse_skip", "parse_num"}
AcqPcs == {"acq_poll", "acq_clear", "acq_emit", "acq_exit"}
Opcodes == {OpSetCapdac, OpSetSamples, OpCollect}

RecCount(o) == Cardinality({i \in DOMAIN o : o[i] = Rec})
MarkCount(o) == Cardinality({i \in DOMAIN o : o[i].t = "mark"})
Max(a, b) == IF a >= b THEN a ELSE b
IsPrefix(a, b) == Len(a) <= Len(b) /\ SubSeq(b, 1, Len(a)) = a

\* the device is back in loop() after an acquisition session that was started with 'S'
SessionOver ==
    /\ pc = "idle"
    /\ Len(out) >= 2
    /\ out[1] = Echo(OpCollect)
    /\ out[2] = Mark(CharO)

(***************************************************************************)
(* C1. Whenever the sensor is read during an acquisition, the offset the   *)
(* sensor was configured with equals the offset last accepted through      *)
(* opcode 0x00 (a value of 0..31).                                         *)
(***************************************************************************)
C1_OffsetInForce ==
    (pc = "acq_emit" /\ capdac \in 0..31) => fdcOffset = capdac

\* a handler is polling for its payload
C2_Waiting ==
    pc \in WaitPcs =>
        /\ ~timerRunning
        /\ samplesSent = 0
        /\ Config = cfg0
        /\ out = <<Echo(pcCommand)>>

\* the main context takes the 200th poll, with no byte available
C2_LastPoll ==
    (pc \in WaitPcs /\ timeout = RETRIES - 1 /\ Len(rx) = 0 /\ pc' # pc) =>
        /\ pc' = "idle"
        /\ out' = <<Echo(pcCommand), Mark(CharF)>>
        /\ capdac' = cfg0.capdac
        /\ samplesToGet' = cfg0.samplesToGet
        /\ samplesSent' = 0
        /\ ~timerRunning'

(***************************************************************************)
(* C2. For each of the three opcodes, when the 200th poll after the echo   *)
(* still finds no byte, the handler sends 'F' and nothing else after the   *)
(* echo (no 'O', no record), the offset and the sample count are the ones  *)
(* the command started with, and the timer is not armed at any point of   *)
(* the wait.                                                               *)
(***************************************************************************)
C2_SilenceFails == [](C2_Waiting) /\ [][C2_LastPoll]_vars

C2_Witness ==
    /\ pc = "idle"
    /\ out = <<Echo(OpSetSamples), Mark(CharF)>>
    /\ capdac = 1
    /\ samplesToGet = 1

(***************************************************************************)
(* C3 as stated. A configuration command that consumed no decimal digit    *)
(* ends with 'F' and with the offset and the sample count unchanged.       *)
(***************************************************************************)
C3_NoDigitFails ==
    (pc = "idle" /\ Len(out) > 0 /\ out[1].b \in {OpSetCapdac, OpSetSamples}
        /\ ~gotDigit) =>
        /\ out = <<out[1], Mark(CharF)>>
        /\ Config = cfg0

\* a configuration handler returns to loop()
C3_ConfigReturn ==
    (pcCommand \in {OpSetCapdac, OpSetSamples} /\ pc # "idle" /\ pc' = "idle") =>
        IF pc \in ParsePcs
        THEN /\ out' = <<Echo(pcCommand), Mark(CharO)>>
             /\ ~gotDigit =>
                   IF pcCommand = OpSetCapdac
                   THEN capdac' = 0 /\ samplesToGet' = cfg0.samplesToGet
                   ELSE samplesToGet' = 0 /\ capdac' = cfg0.capdac
        ELSE /\ timeout = RETRIES - 1
             /\ Len(rx) = 0
             /\ out' = <<Echo(pcCommand), Mark(CharF)>>
             /\ capdac' = cfg0.capdac
             /\ samplesToGet' = cfg0.samplesToGet

(***************************************************************************)
(* C3 amended. A configuration command ends with 'F' and an unchanged      *)
(* configuration only when every one of the 200 polls found no byte.  Once *)
(* a poll finds a byte the command ends with 'O', and if the bytes that    *)
(* arrived held no decimal digit its parameter is set to 0 (the other      *)
(* parameter is unchanged).                                                *)
(***************************************************************************)
C3_AnyByteIsAPayload == [][C3_ConfigReturn]_vars

C3_Witness ==
    /\ pc = "idle"
    /\ out = <<Echo(OpSetCapdac), Mark(CharO)>>
    /\ ~gotDigit
    /\ cfg0.capdac = 1
    /\ capdac = 0

C5_MarkerLast ==
    (SessionOver /\ RecCount(out) > 0) => out[Len(out)] = Mark(CharO)

(***************************************************************************)
(* C5 amended. In the output of a start-acquisition command the 'O' comes  *)
(* right after the echo and before the first sample record: every record   *)
(* is at a position after the 'O'.                                         *)
(***************************************************************************)
C5_MarkerFirst ==
    (Len(out) > 0 /\ out[1] = Echo(OpCollect)) =>
        \A i \in DOMAIN out : out[i] = Rec => (i > 2 /\ out[2] = Mark(CharO))

C5_Witness ==
    /\ pc = "acq_poll"
    /\ samplesSent = 2
    /\ out = <<Echo(OpCollect), Mark(CharO), Rec, Rec>>

(***************************************************************************)
(* C6. The output of every command starts with the echo of the opcode that *)
(* was read, sent before the first poll; until the handler decides there   *)
(* is no result marker, and from then on exactly one, 'O' or 'F'.          *)
(***************************************************************************)
C6_EchoThenOneMarker ==
    /\ pc # "idle" => (Len(out) > 0 /\ out[1] = Echo(pcCommand) /\ pcCommand \in Opcodes)
    /\ pc \in WaitPcs \cup ParsePcs => out = <<Echo(pcCommand)>>
    /\ pc \in AcqPcs => (MarkCount(out) = 1 /\ out[2] = Mark(CharO))
    /\ (pc = "idle" /\ Len(out) > 0) =>
          /\ out[1].t = "echo"
          /\ out[1].b \in Opcodes
          /\ MarkCount(out) = 1
          /\ out[2] \in {Mark(CharO), Mark(CharF)}

C6_Witness ==
    /\ pc = "idle"
    /\ out = <<Echo(OpSetSamples), Mark(CharO)>>
    /\ samplesToGet = 1
    /\ cfg0.samplesToGet # 1

\* loop() reads a byte that is none of the three opcodes
UnknownByteRead ==
    /\ pc = "idle"
    /\ Len(rx) > 0
    /\ Head(rx) \notin Opcodes
    /\ rx' = Tail(rx)

\* what such a step leaves alone
C7_FrameOfUnknownByte ==
    /\ pc' = "idle"
    /\ UNCHANGED <<out, capdac, samplesToGet, samplesSent, timer_interruptFlag,
                   timerRunning, timerCounter, timeout, dataCAP, fdcOffset>>

(***************************************************************************)
(* C7 as stated. Reading a byte that is no opcode changes nothing: no      *)
(* output, no handler, the configuration, samplesSent, the trigger flag    *)
(* and the timer unchanged, and the dispatcher state (pc and pcCommand)    *)
(* the same as before the byte was read.                                   *)
(***************************************************************************)
C7_NothingChanges ==
    [][UnknownByteRead => (C7_FrameOfUnknownByte /\ pcCommand' = pcCommand)]_vars

(***************************************************************************)
(* C7 amended. Reading a byte that is no opcode sends nothing, runs no     *)
(* handler and leaves the configuration, samplesSent, the trigger flag and *)
(* the timer unchanged; the dispatcher stays idle, but pcCommand now holds *)
(* the byte that was read (it is not set back to -1).                      *)
(***************************************************************************)
C7_UnknownByteIgnored ==
    [][UnknownByteRead => (C7_FrameOfUnknownByte /\ pcCommand' = Head(rx))]_vars

C7_Witness ==
    /\ pc = "idle"
    /\ pcCommand = CharS
    /\ out = <<>>

(***************************************************************************)
(* C8. Whenever a handler is running, the dispatcher is eventually idle    *)
(* again, whatever the host sends.                                         *)
(***************************************************************************)
C8_HandlerReturns == (pc # "idle") ~> (pc = "idle")

\* a step taken while collectData() is in its acquisition loop
C9_RunStep ==
    pc \in AcqPcs =>
        /\ IsPrefix(rx, rx')
        /\ capdac' = capdac
        /\ samplesToGet' = samplesToGet
        /\ pc' \in AcqPcs => pcCommand' = OpCollect
        /\ pc' \in AcqPcs \cup {"idle"}
        /\ (pc' = "idle" \/ pc' = "acq_exit") =>
              (samplesSent >= samplesToGet /\ RecCount(out) = samplesSent)

(***************************************************************************)
(* C9. While the acquisition loop runs, no serial byte is consumed, the    *)
(* offset and the sample count do not change, the command in progress      *)
(* stays 0x02, and the loop is left only when samplesSent has reached the  *)
(* sample count, every one of those samples having been sent as a record.  *)
(***************************************************************************)
C9_NoCancellation == [][C9_RunStep]_vars

C9_Witness ==
    /\ pc = "acq_exit"
    /\ samplesSent = 1
    /\ rx = <<OpSetSamples>>

\* the loop stamps a record that is not the first of its session
C10_Step ==
    (pc = "acq_emit" /\ samplesSent > 0 /\ samplesSent' = samplesSent + 1) =>
        Uint32Leq(dataCAP.cap_sens_timestamp, dataCAP'.cap_sens_timestamp)

(***************************************************************************)
(* C10. Within one session, the timestamp of each record is not smaller    *)
(* than the timestamp of the record before it.                             *)
(***************************************************************************)
C10_TimestampsNonDecreasing == [][C10_Step]_vars

\* what the host reads back from four bytes: a uint32_t, least significant byte first
DecodeUint32(b) == [hi |-> b[3].b + 256 * b[4].b, lo |-> b[1].b + 256 * b[2].b]

\* the same four bytes read as an int32_t
DecodeInt32(b) ==
    LET u == DecodeUint32(b)
    IN IF u.hi >= Pow16 \div 2
       THEN ((u.hi - (Pow16 \div 2)) * Pow16 + u.lo) + MinInt32
       ELSE u.hi * Pow16 + u.lo

\* eight bytes read in the field order of cap_sens_reading
DecodeRecord(b) ==
    [cap_sens_timestamp |-> DecodeUint32(SubSeq(b, 1, 4)),
     cap_sens_data |-> DecodeInt32(SubSeq(b, 5, 8))]

\* the loop transmits the record it holds
C11_WriteStep ==
    (pc = "acq_write" /\ pc' # pc) =>
        /\ Len(out') = Len(out) + 8
        /\ IsPrefix(out, out')
        /\ \A i \in DOMAIN out' : out'[i].t = "byte" /\ out'[i].b \in 0..255
        /\ DecodeRecord(SubSeq(out', Len(out) + 1, Len(out) + 8)) = dataCAP

\* the stream is the records and nothing else
C11_Framing == pc \in AcqPcs \cup {"acq_write"} => Len(out) = 8 * samplesSent

(***************************************************************************)
(* C11. Each record is transmitted as exactly 8 bytes appended to the      *)
(* stream, with nothing before, between or after the records, and reading  *)
(* bytes 1..4 as an unsigned and bytes 5..8 as a signed 32-bit integer in   *)
(* the same byte order gives back the timestamp and the reading the loop   *)
(* captured, the extremes of both types included.                          *)
(***************************************************************************)
C11_RecordRoundTrips == [](C11_Framing) /\ [][C11_WriteStep]_vars

C11_Witness ==
    /\ pc = "acq_exit"
    /\ Len(out) = 16
    /\ DecodeRecord(SubSeq(out, 1, 8)) =
          [cap_sens_timestamp |-> [hi |-> 258, lo |-> 772], cap_sens_data |-> 16909060]
    /\ dataCAP = [cap_sens_timestamp |-> [hi |-> Pow16 - 1, lo |-> Pow16 - 1],
                  cap_sens_data |-> MinInt32]
    /\ DecodeRecord(SubSeq(out, 9, 16)) = dataCAP

\* the alarm of the running timer fires: the counter reloads and the handler runs
ExpiryStep == timerRunning /\ timerRunning' /\ timerCounter' < timerCounter

\* timer_start
ArmStep == ~timerRunning /\ timerRunning'

(***************************************************************************)
(* C12. The interrupt handler never runs between the loop's read of the    *)
(* trigger flag (which found it true) and the loop's clear of it.          *)
(***************************************************************************)
C12_TestAndClearAtomic == [][pc = "acq_clear" => ~ExpiryStep]_vars

(***************************************************************************)
(* C13. At the moment the timer is armed for a session, the first or a     *)
(* later one, the trigger flag is false.                                   *)
(***************************************************************************)
C13_FlagClearAtArm == [][ArmStep => ~timer_interruptFlag']_vars

\* outside the acquisition window the timer is paused at 0, inside it is counting
C14_Scoped ==
    /\ pc \notin AcqPcs => (~timerRunning /\ timerCounter = 0)
    /\ pc \in AcqPcs => timerRunning

\* the timer is started by the poll that reads 'S', which enters the loop, and
\* leaving the window pauses it at 0
C14_ArmAndDisarm ==
    /\ ArmStep =>
          (pc = "col_wait" /\ Len(rx) > 0 /\ Head(rx) = CharS /\ pc' = "acq_poll")
    /\ (pc \in AcqPcs /\ pc' \notin AcqPcs) => (~timerRunning' /\ timerCounter' = 0)
    /\ (pc = "col_wait" /\ pc' = "idle") => (~timerRunning' /\ timerCounter' = 0)

(***************************************************************************)
(* C14. The timer counts only inside the acquisition window: while the     *)
(* dispatcher is idle, a configuration handler runs or the start handler   *)
(* waits for 'S' or has timed out, it is paused with its counter at 0; it  *)
(* is started only by the step that receives 'S', right before the loop,   *)
(* and every exit of collectData leaves it paused with its counter at 0.   *)
(***************************************************************************)
C14_TimerScoped == [](C14_Scoped) /\ [][C14_ArmAndDisarm]_vars

C14_Witness ==
    /\ SessionOver
    /\ RecCount(out) = 1
    /\ timer_interruptFlag
    /\ ~timerRunning
    /\ timerCounter = 0

(***************************************************************************)
(* C15. In every session the number of records written never exceeds the   *)
(* number of timer expiries since that session's timer_start.              *)
(***************************************************************************)
C15_RecordsWithinExpiries == ledger.on => ledger.credit >= 0

\* what an execution of the interrupt handler leaves alone
C16_HandlerFrame ==
    ExpiryStep =>
        /\ timer_interruptFlag'
        /\ UNCHANGED <<pc, pcCommand, capdac, samplesToGet, samplesSent, timeout,
                       dataCAP, value, isNegative, rx, out, timerRunning, fdcOffset, now>>

\* who writes the trigger flag: the handler sets it, the loop clears it
C16_FlagWriters ==
    /\ (~timer_interruptFlag /\ timer_interruptFlag') => ExpiryStep
    /\ (timer_interruptFlag /\ ~timer_interruptFlag') =>
          (pc = "acq_clear" /\ pc' = "acq_emit" /\ ~ExpiryStep)

(***************************************************************************)
(* C16. Each execution of the timer interrupt handler sets the trigger     *)
(* flag and leaves the offset, the sample count, samplesSent, pcCommand,   *)
(* dataCAP, the serial input and output, the position of the main context  *)
(* and the timer's armed state unchanged, and reads neither the sensor nor *)
(* the clock; the flag is set only by the handler and cleared only by the  *)
(* loop, so it is the one variable both contexts write.                    *)
(***************************************************************************)
C16_HandlerOnlySetsFlag == [][C16_HandlerFrame /\ C16_FlagWriters]_vars

C16_Witness ==
    /\ pc = "acq_emit"
    /\ timer_interruptFlag
    /\ samplesSent = 1
    /\ timerCounter = 0

\* loop() calls a handler
C17_HandlerStarts ==
    (pc = "idle" /\ pc' # "idle") =>
        /\ Len(rx) > 0
        /\ rx' = Tail(rx)
        /\ Head(rx) \in Opcodes
        /\ pcCommand' = Head(rx)
        /\ pc' = Dispatch(Head(rx))

(***************************************************************************)
(* C17. A handler starts only in the pass of loop() that reads an opcode   *)
(* byte, and it is the handler of that byte; between handlers pcCommand is *)
(* never an opcode, so a pass that reads nothing, or a byte that is no     *)
(* opcode, starts no handler.                                              *)
(***************************************************************************)
C17_OncePerByte == [](pc = "idle" => pcCommand \notin Opcodes) /\ [][C17_HandlerStarts]_vars

C17_Witness ==
    /\ pc = "idle"
    /\ pcCommand = CharS
    /\ out = <<Echo(OpSetCapdac), Mark(CharO)>>
    /\ rx = <<>>

(***************************************************************************)
(* C18. During and after each command, with cfg0 the configuration the     *)
(* command started with: set-offset has the sample count of cfg0,          *)
(* set-sample-count has the offset of cfg0, and start-acquisition has      *)
(* both, whether the command ends with 'O' or with 'F'.                    *)
(***************************************************************************)
C18_OwnParameterOnly ==
    Len(out) > 0 =>
        /\ out[1].b = OpSetCapdac => samplesToGet = cfg0.samplesToGet
        /\ out[1].b = OpSetSamples => capdac = cfg0.capdac
        /\ out[1].b = OpCollect => Config = cfg0

C18_Witness ==
    /\ pc = "idle"
    /\ out = <<Echo(OpSetCapdac), Mark(CharO)>>
    /\ capdac = 1
    /\ cfg0 = [capdac |-> 0, samplesToGet |-> 1]
====
